---- MODULE Spec2Model ----
(***************************************************************************)
(* Verification model of MissionToMars: the Earth-UTC to Mars-time         *)
(* conversions of src/MarsTime.py (the multi-term model, used by the       *)
(* /api/mars_time handler of src/app.py) and of src/mars_time.py (the      *)
(* simplified model).                                                      *)
(*                                                                         *)
(* NUMBERS.  The program computes in Python floats (IEEE-754 binary64).    *)
(* The claims checked here turn on what that arithmetic does at the edges  *)
(* (the rounding inside `%`, float `//`, int(), round()), so floats are    *)
(* modelled as floats: a float is a signed multiple of 2^-FracBits that    *)
(* fits DoubleBits significant bits, and every operation rounds its exact  *)
(* result to nearest, ties to even, as the hardware does.  FracBits is the *)
(* one departure from binary64: the grid of the smallest values is         *)
(* 2^-FracBits instead of 2^-1074 (gradual underflow sets in earlier).     *)
(* No quantity of the program comes near either limit except the tiny      *)
(* inputs chosen on purpose.  Signed zero, infinities and NaN are left     *)
(* out.                                                                    *)
(*                                                                         *)
(* TLC's integers are 32 bits wide, so the significands are held as        *)
(* little-endian sequences of 15-bit limbs (Nat of any size); the limb     *)
(* operations are written without recursion where possible, because the    *)
(* evaluator's stack is shallow.                                           *)
(***************************************************************************)
EXTENDS Integers, Sequences, FiniteSets, TLC

(***************************************************************************)
(* Naturals of any size.  <<>> is zero; the last limb is never 0.          *)
(***************************************************************************)
Base == 2^15

\* Body applied to v: a local variable, and what follows its assignment
Let(v, Body(_)) == Body(v)

Max(x, y) == IF x >= y THEN x ELSE y
Min(x, y) == IF x <= y THEN x ELSE y

Limb(a, i) == IF i >= 1 /\ i <= Len(a) THEN a[i] ELSE 0

Top(a) == IF \A i \in 1..Len(a) : a[i] = 0 THEN 0
          ELSE CHOOSE i \in 1..Len(a) :
                   a[i] # 0 /\ \A j \in (i + 1)..Len(a) : a[j] = 0

Norm(a) == SubSeq(a, 1, Top(a))

Zeros(n) == [i \in 1..n |-> 0]

\* a Nat below 2^31 as limbs
BN(n) == Norm(<<n % Base, (n \div Base) % Base, n \div (Base * Base)>>)

\* a Nat of at most two limbs back as an integer
BInt(a) == Limb(a, 1) + Base * Limb(a, 2)

BAdd(a, b) ==
    LET n == Max(Len(a), Len(b))
        s == [i \in 1..(n + 1) |-> Limb(a, i) + Limb(b, i)]
        \* the carry into limb i: generated at some j below, propagated since
        Carry(i) == \E j \in 1..(i - 1) :
                        s[j] >= Base /\ \A k \in (j + 1)..(i - 1) : s[k] >= Base - 1
    IN  Norm([i \in 1..(n + 1) |-> (s[i] + (IF Carry(i) THEN 1 ELSE 0)) % Base])

\* a - b for a >= b
BSub(a, b) ==
    LET d == [i \in 1..Len(a) |-> a[i] - Limb(b, i)]
        Borrow(i) == \E j \in 1..(i - 1) :
                         d[j] < 0 /\ \A k \in (j + 1)..(i - 1) : d[k] <= 0
    IN  Norm([i \in 1..Len(a) |->
                 (d[i] - (IF Borrow(i) THEN 1 ELSE 0) + Base) % Base])

\* -1, 0, 1 as a < b, a = b, a > b
BCmp(a, b) ==
    IF Len(a) # Len(b) THEN (IF Len(a) > Len(b) THEN 1 ELSE -1)
    ELSE IF \A i \in 1..Len(a) : a[i] = b[i] THEN 0
    ELSE LET i == CHOOSE i \in 1..Len(a) :
                      a[i] # b[i] /\ \A j \in (i + 1)..Len(a) : a[j] = b[j]
         IN  IF a[i] > b[i] THEN 1 ELSE -1

\* a * s for 0 <= s <= Base
BMulSmall(a, s) ==
    BAdd([i \in 1..Len(a) |-> (a[i] * s) % Base],
         [i \in 1..(Len(a) + 1) |-> IF i = 1 THEN 0 ELSE (a[i - 1] * s) \div Base])

RECURSIVE SumOf(_, _, _)
\* f[lo] + ... + f[hi], by halves
SumOf(f, lo, hi) ==
    IF lo > hi THEN 0
    ELSE IF lo = hi THEN f[lo]
    ELSE SumOf(f, lo, (lo + hi) \div 2) + SumOf(f, (lo + hi) \div 2 + 1, hi)

\* a * b by columns: column k collects the low halves of the limb products
\* of weight k and the high halves of those of weight k - 1
BMul(a, b) ==
    LET n == Len(a)
        m == Len(b)
        P == [i \in 1..n |-> [j \in 1..m |-> a[i] * b[j]]]
        Col(k) == SumOf([i \in 1..n |->
                      (IF k + 1 - i >= 1 /\ k + 1 - i <= m
                       THEN P[i][k + 1 - i] % Base ELSE 0)
                    + (IF k - i >= 1 /\ k - i <= m
                       THEN P[i][k - i] \div Base ELSE 0)], 1, n)
        c == [k \in 1..(n + m) |-> Col(k)]
    IN  IF n = 0 \/ m = 0 THEN <<>>
        ELSE BAdd([k \in 1..(n + m) |-> c[k] % Base],
                  [k \in 1..(n + m + 1) |-> IF k = 1 THEN 0 ELSE c[k - 1] \div Base])

\* a * 2^n and floor(a / 2^n), a mod 2^n
BShl(a, n) ==
    LET w == n \div 15
        r == n % 15
    IN  Norm([i \in 1..(Len(a) + w + 1) |->
                 ((Limb(a, i - w) * 2^r) % Base)
                 + (Limb(a, i - w - 1) \div 2^(15 - r))])

BShr(a, n) ==
    LET w == n \div 15
        r == n % 15
    IN  Norm([i \in 1..Max(Len(a) - w, 0) |->
                 (Limb(a, i + w) \div 2^r)
                 + ((Limb(a, i + w + 1) % 2^r) * 2^(15 - r))])

BLow(a, n) ==
    LET w == n \div 15
        r == n % 15
    IN  Norm([i \in 1..Min(Len(a), w + 1) |->
                 IF i <= w THEN a[i] ELSE a[i] % 2^r])

Bits(n) == IF n = 0 THEN 0 ELSE CHOOSE k \in 1..15 : 2^(k - 1) <= n /\ n < 2^k

BitLen(a) == IF Len(a) = 0 THEN 0 ELSE 15 * (Len(a) - 1) + Bits(a[Len(a)])

BBit(a, j) == (Limb(a, j \div 15 + 1) \div 2^(j % 15)) % 2

\* Short division, from the top limb down.  st is the state of the loop: q the
\* quotient limbs found so far, r the remainder they leave; n is r with the
\* next limb brought down.
BDivSmallStep(st, n, s) == [q |-> <<n \div s>> \o st.q, r |-> n % s]

RECURSIVE BDivSmallAt(_, _, _)
BDivSmallAt(a, s, st) ==
    IF Len(st.q) = Len(a) THEN [q |-> Norm(st.q), r |-> st.r]
    ELSE BDivSmallAt(a, s, BDivSmallStep(st, st.r * Base + a[Len(a) - Len(st.q)], s))

\* quotient and remainder of a by s, 0 < s <= Base
BDivSmall(a, s) == BDivSmallAt(a, s, [q |-> <<>>, r |-> 0])

RECURSIVE FitDigit(_, _, _)
\* the largest q <= qhat with q * b <= rem
FitDigit(rem, b, qhat) ==
    IF BCmp(BMulSmall(b, qhat), rem) <= 0 THEN qhat ELSE FitDigit(rem, b, qhat - 1)

\* the next quotient limb of rem by b (rem < b * Base, top limb of b >= Base/2):
\* estimated from the leading limbs, at most 2 too large
Digit(rem, b) ==
    IF Len(rem) < Len(b) THEN 0
    ELSE LET top == IF Len(rem) > Len(b)
                    THEN rem[Len(rem)] * Base + rem[Len(rem) - 1]
                    ELSE rem[Len(rem)]
         IN  FitDigit(rem, b, Min(Base - 1, top \div b[Len(b)]))

\* Long division, from the top limb down.  st is the state of the loop as in
\* BDivSmallAt; cur is st.r with the next limb brought down, qd the quotient
\* limb it gives.
BDivModPut(st, cur, b, qd) ==
    [q |-> <<qd>> \o st.q, r |-> BSub(cur, BMulSmall(b, qd))]

BDivModStep(st, cur, b) == BDivModPut(st, cur, b, Digit(cur, b))

RECURSIVE BDivModAt(_, _, _)
BDivModAt(a, b, st) ==
    IF Len(st.q) = Len(a) THEN [q |-> Norm(st.q), r |-> st.r]
    ELSE BDivModAt(a, b, BDivModStep(st, Norm(<<a[Len(a) - Len(st.q)]>> \o st.r), b))

\* a and b scaled by 2^s, which leaves the quotient and scales the remainder
BDivModScaled(a, b, s) ==
    [BDivModAt(BShl(a, s), BShl(b, s), [q |-> <<>>, r |-> <<>>])
        EXCEPT !.r = BShr(@, s)]

\* quotient and remainder of a by b # 0 (schoolbook long division on limbs)
BDivMod(a, b) == BDivModScaled(a, b, 15 - Bits(b[Len(b)]))

(***************************************************************************)
(* Python floats.  A float is [neg, m]: the value (-1)^neg * m * 2^-FracBits *)
(* with m of at most DoubleBits bits.                                      *)
(***************************************************************************)
DoubleBits == 53
FracBits == 75

F(neg, m) == [neg |-> neg /\ m # <<>>, m |-> m]

\* Round to nearest, ties to even.  The exact magnitude is m * 2^-u plus, if
\* sticky, something positive below one unit of m; u >= FracBits, and u >
\* FracBits whenever sticky.
RoundAt(m, u, sticky, drop) ==
    LET up == /\ BBit(m, drop - 1) = 1
              /\ (sticky \/ BLow(m, drop - 1) # <<>> \/ BBit(m, drop) = 1)
    IN  BShl(BAdd(BShr(m, drop), IF up THEN <<1>> ELSE <<>>), drop - (u - FracBits))

RoundMag(m, u, sticky) ==
    IF BitLen(m) <= DoubleBits /\ u <= FracBits THEN m
    ELSE RoundAt(m, u, sticky, Max(BitLen(m) - DoubleBits, u - FracBits))

\* the float nearest to (-1)^neg * m * 2^-FracBits, m of any size
FRound(neg, m) == F(neg, RoundMag(m, FracBits, FALSE))

\* the float nearest to a quotient: d the integer quotient and remainder of
\* the magnitudes, the dividend scaled by 2^(FracBits + 2)
FQuot(neg, d) == F(neg, RoundMag(d.q, FracBits + 2, d.r # <<>>))

FNeg(x) == F(~x.neg, x.m)

\* exact signed sum and product of [neg, m] pairs
ZAdd(x, y) ==
    IF x.neg = y.neg THEN F(x.neg, BAdd(x.m, y.m))
    ELSE IF BCmp(x.m, y.m) >= 0 THEN F(x.neg, BSub(x.m, y.m))
         ELSE F(y.neg, BSub(y.m, x.m))

ZMul(x, y) == F(x.neg # y.neg, BMul(x.m, y.m))

FAdd(x, y) ==
    IF x.neg = y.neg THEN FRound(x.neg, BAdd(x.m, y.m))
    ELSE IF BCmp(x.m, y.m) >= 0 THEN FRound(x.neg, BSub(x.m, y.m))
         ELSE FRound(y.neg, BSub(y.m, x.m))

FSub(x, y) == FAdd(x, FNeg(y))

FMul(x, y) == F(x.neg # y.neg, RoundMag(BMul(x.m, y.m), 2 * FracBits, FALSE))

\* x / y, y # 0
FDiv(x, y) == FQuot(x.neg # y.neg, BDivMod(BShl(x.m, FracBits + 2), y.m))

\* -1, 0, 1 as x < y, x = y, x > y
FCmp(x, y) ==
    IF x.neg # y.neg THEN (IF x.neg THEN -1 ELSE 1)
    ELSE IF x.neg THEN BCmp(y.m, x.m) ELSE BCmp(x.m, y.m)

\* C fmod: exact, the sign of x
CFmod(x, y) == F(x.neg, BDivMod(x.m, y.m).r)

\* float % float (CPython float_rem): fmod, then the divisor is added when
\* the signs differ -- an addition that rounds
FModSigned(mod, y) ==
    IF mod.m # <<>> /\ mod.neg # y.neg THEN FAdd(mod, y) ELSE mod

FMod(x, y) == FModSigned(CFmod(x, y), y)

\* the float floor(x)
FFloor(x) ==
    LET i == BShr(x.m, FracBits)
    IN  IF x.neg /\ BLow(x.m, FracBits) # <<>>
        THEN F(TRUE, BShl(BAdd(i, <<1>>), FracBits))
        ELSE F(x.neg, BShl(i, FracBits))

\* an int below 2^31 in magnitude as a float (exact)
FInt(n) == F(n < 0, BShl(BN(IF n < 0 THEN -n ELSE n), FracBits))

\* float // float (CPython float_floor_div)
FFloorDivSnap(div, fl) ==
    IF FCmp(FSub(div, fl), FDiv(FInt(1), FInt(2))) > 0 THEN FAdd(fl, FInt(1)) ELSE fl

FFloorDivOf(div) == IF div.m = <<>> THEN div ELSE FFloorDivSnap(div, FFloor(div))

FFloorDivSigned(x, y, mod) ==
    FFloorDivOf(IF mod.m # <<>> /\ mod.neg # y.neg
                THEN FSub(FDiv(FSub(x, mod), y), FInt(1))
                ELSE FDiv(FSub(x, mod), y))

FFloorDiv(x, y) == FFloorDivSigned(x, y, CFmod(x, y))

\* int(x): truncation toward zero (|x| < 2^30)
PyInt(x) ==
    LET i == BInt(BShr(x.m, FracBits))
    IN  IF x.neg THEN -i ELSE i

\* math.floor(x) (|x| < 2^30)
PyFloor(x) ==
    LET i == BInt(BShr(x.m, FracBits))
    IN  IF x.neg THEN (IF BLow(x.m, FracBits) # <<>> THEN -(i + 1) ELSE -i) ELSE i

\* round(x): to the nearest int, ties to even (|x| < 2^30)
PyRound(x) ==
    LET i == BInt(BShr(x.m, FracBits))
        c == BCmp(BLow(x.m, FracBits), BShl(<<1>>, FracBits - 1))
        n == IF c > 0 \/ (c = 0 /\ i % 2 = 1) THEN i + 1 ELSE i
    IN  IF x.neg THEN -n ELSE n

\* The decimal literal i.f with s fractional digits (f written with s digits,
\* s <= 9): the nearest float, as the compiler and float() produce it
Dec(i, f, s) ==
    FQuot(FALSE, BDivMod(BShl(BAdd(BMul(BN(i), BN(10^s)), BN(f)), FracBits + 2),
                         BN(10^s)))

\* the same for up to 18 fractional digits, in two groups of nine
Dec18(i, f1, f2) ==
    LET e9 == BN(10^9)
    IN  FQuot(FALSE, BDivMod(BShl(BAdd(BMul(BAdd(BMul(BN(i), e9), BN(f1)), e9),
                                       BN(f2)),
                                  FracBits + 2),
                             BMul(e9, e9)))

\* m * 2^-e for a Nat m of any size (exact when m has at most DoubleBits bits)
Dyadic(neg, m, e) == F(neg, RoundMag(BShl(m, FracBits), FracBits + e, FALSE))

(***************************************************************************)
(* The math module.  sin and cos are computed in fixed point with TrigBits *)
(* fractional bits (far below half a unit in the last place of the result) *)
(* and rounded once, which is what the platform's libm delivers for these  *)
(* arguments.                                                              *)
(***************************************************************************)
TrigBits == FracBits + 30

\* floor(pi * 2^180)
PiFix == <<6643, 1093, 590, 8786, 28787, 23558, 26152, 6296, 12429, 4276,
           23202, 4639, 3>>

HalfPi == BShr(PiFix, 12 * 15 + 1 - TrigBits)

\* the float pi (math.pi)
PiF == F(FALSE, RoundMag(PiFix, 12 * 15, TRUE))

\* math.radians(x) = x * (pi / 180), math.degrees(x) = x * (180 / pi)
degToRad == FDiv(PiF, FInt(180))
radToDeg == FDiv(FInt(180), PiF)

radians(x) == FMul(x, degToRad)
degrees(x) == FMul(x, radToDeg)

RECURSIVE Series(_, _, _, _)
\* t - t r2/(j(j+1)) + t r2^2/(j(j+1)(j+2)(j+3)) - ... in fixed point.  st is
\* the state of the loop: t the next term, pos and neg the sums of the terms
\* added and subtracted so far.
Series(st, r2, j, plus) ==
    IF st.t = <<>> THEN BSub(st.pos, st.neg)
    ELSE Series([t |-> BDivSmall(BShr(BMul(st.t, r2), TrigBits), j * (j + 1)).q,
                 pos |-> IF plus THEN BAdd(st.pos, st.t) ELSE st.pos,
                 neg |-> IF plus THEN st.neg ELSE BAdd(st.neg, st.t)],
                r2, j + 2, ~plus)

\* sin r and cos r for 0 <= r < pi/2, all in units of 2^-TrigBits
SinFix(r) ==
    Series([t |-> r, pos |-> <<>>, neg |-> <<>>],
           BShr(BMul(r, r), TrigBits), 2, TRUE)
CosFix(r) ==
    Series([t |-> BShl(<<1>>, TrigBits), pos |-> <<>>, neg |-> <<>>],
           BShr(BMul(r, r), TrigBits), 1, TRUE)

\* |x| = n * pi/2 + r: the quadrant n mod 4 and r
Quadrant(d) == [n |-> Limb(d.q, 1) % 4, r |-> d.r]

Reduce(x) == Quadrant(BDivMod(BShl(x.m, TrigBits - FracBits), HalfPi))

SinOf(neg, a) ==
    F(neg # (a.n >= 2),
      RoundMag(IF a.n % 2 = 0 THEN SinFix(a.r) ELSE CosFix(a.r), TrigBits, TRUE))

CosOf(a) ==
    F(a.n \in {1, 2},
      RoundMag(IF a.n % 2 = 0 THEN CosFix(a.r) ELSE SinFix(a.r), TrigBits, TRUE))

sin(x) == IF x.m = <<>> THEN x ELSE SinOf(x.neg, Reduce(x))

cos(x) == IF x.m = <<>> THEN FInt(1) ELSE CosOf(Reduce(x))

(***************************************************************************)
(* Python ints of any size are the same pairs with m counting units:       *)
(* ZInt, ZAdd, ZMul are exact; int / int is the correctly rounded quotient.*)
(***************************************************************************)
ZInt(n) == F(n < 0, BN(IF n < 0 THEN -n ELSE n))

ZTrueDiv(a, b) == FQuot(a.neg # b.neg, BDivMod(BShl(a.m, FracBits + 2), b.m))

\* float(int)
ZToF(a) == F(a.neg, RoundMag(BShl(a.m, FracBits), FracBits, FALSE))

(***************************************************************************)
(* datetime.  A datetime is its wall-clock reading -- the proleptic        *)
(* Gregorian ordinal of the date, the second of the day, the microsecond   *)
(* -- and its tzinfo: <<>> for None (a naive datetime), <<o>> for          *)
(* timezone(timedelta(seconds = o)).                                       *)
(***************************************************************************)
is_leap(y) == y % 4 = 0 /\ (y % 100 # 0 \/ y % 400 = 0)

days_before_year(y) ==
    (y - 1) * 365 + (y - 1) \div 4 - (y - 1) \div 100 + (y - 1) \div 400

days_before_month(y, mo) ==
    <<0, 31, 59, 90, 120, 151, 181, 212, 243, 273, 304, 334>>[mo]
    + (IF mo > 2 /\ is_leap(y) THEN 1 ELSE 0)

ymd2ord(y, mo, d) == days_before_year(y) + days_before_month(y, mo) + d

datetime(y, mo, d, hh, mi, ss, us, tz) ==
    [date |-> ymd2ord(y, mo, d), sod |-> hh * 3600 + mi * 60 + ss, us |-> us,
     tzinfo |-> tz]

utc == <<0>>

\* datetime.fromisoformat: the text YYYY-MM-DDTHH:MM:SS[.ffffff][+HH:MM],
\* given by its fields; off is <<>> when the text carries no offset, else
\* <<sign, HH, MM>>
fromisoformat(iso) ==
    datetime(iso.ymd[1], iso.ymd[2], iso.ymd[3], iso.hms[1], iso.hms[2],
             iso.hms[3], iso.frac,
             IF iso.off = <<>> THEN <<>>
             ELSE <<iso.off[1] * (iso.off[2] * 3600 + iso.off[3] * 60)>>)

\* microseconds from ordinal 0, 00:00 UTC to the instant of an aware datetime
\* (for a naive one: to its wall-clock reading)
UtcMicros(dt) ==
    ZAdd(ZMul(ZAdd(ZMul(ZInt(dt.date), ZInt(86400)),
                   ZInt(dt.sod - (IF dt.tzinfo = <<>> THEN 0 ELSE dt.tzinfo[1]))),
              ZInt(1000000)),
         ZInt(dt.us))

\* aware - aware, .total_seconds(): microseconds / 10^6
total_seconds(a, b) == ZTrueDiv(ZAdd(UtcMicros(a), FNeg(UtcMicros(b))), ZInt(1000000))

Epoch == datetime(1970, 1, 1, 0, 0, 0, 0, utc)

\* dt.timestamp() on a host whose local time is UTC + host seconds.  Aware:
\* (dt - epoch).total_seconds().  Naive: the wall clock is read as the
\* host's local time (mktime), and the microseconds are added as a float.
timestamp(dt, host) ==
    IF dt.tzinfo # <<>> THEN total_seconds(dt, Epoch)
    ELSE FAdd(ZToF(ZAdd(ZMul(ZInt(dt.date - Epoch.date), ZInt(86400)),
                        ZInt(dt.sod - host))),
              FDiv(FInt(dt.us), FInt(1000000)))

\* dt.replace(tzinfo = tz) and dt.astimezone(timezone.utc) for aware dt
replace_tzinfo(dt, tz) == [dt EXCEPT !.tzinfo = tz]

astimezone_utc(dt) ==
    LET w == dt.sod - dt.tzinfo[1]
    IN  [date |-> dt.date + (IF w < 0 THEN -1 ELSE IF w >= 86400 THEN 1 ELSE 0),
         sod |-> (w + 86400) % 86400, us |-> dt.us, tzinfo |-> utc]

(***************************************************************************)
(* src/MarsTime.py.  The float literals of the file, each converted once.  *)
(***************************************************************************)
JD_UNIX_EPOCH == Dec(2440587, 5, 1)
SECONDS_PER_DAY == Dec(86400, 0, 1)
HOURS_24 == Dec(24, 0, 1)
JD_J2000_TT == Dec(2451545, 0, 1)
M_DEG_0 == Dec(19, 3871, 4)
M_DEG_RATE == Dec(0, 52402073, 8)
FMS_DEG_0 == Dec(270, 3871, 4)
FMS_DEG_RATE == Dec(0, 524038496, 9)
PBS_DEG_RATE == Dec(0, 985626, 6)
EC_1 == Dec(10, 691, 3)
EC_1_RATE == Dec(0, 3, 7)
EC_2 == Dec(0, 623, 3)
EC_3 == Dec(0, 50, 3)
EC_4 == Dec(0, 5, 3)
EC_5 == Dec(0, 5, 4)
EOT_2 == Dec(2, 861, 3)
EOT_4 == Dec(0, 71, 3)
EOT_6 == Dec(0, 2, 3)
DEG_PER_HOUR == Dec(15, 0, 1)
JD_MSD_EPOCH == Dec(2451549, 5, 1)
DAYS_PER_SOL == Dec18(1, 27491251, 700000000)
MSD_AT_EPOCH == Dec(44796, 0, 1)
MSD_CORRECTION == Dec(0, 9626, 7)

_jd_ut_from_utc(dt, host) ==
    FAdd(JD_UNIX_EPOCH, FDiv(timestamp(dt, host), SECONDS_PER_DAY))

_tt_minus_utc_seconds == Dec(69, 184, 3)

_jd_tt_from_utc(dt, host) ==
    FAdd(_jd_ut_from_utc(dt, host), FDiv(_tt_minus_utc_seconds, SECONDS_PER_DAY))

_mod24(h) == FMod(h, HOURS_24)

_days_since_j2000_tt(jd_tt) == FSub(jd_tt, JD_J2000_TT)

_mars_mean_anomaly(dtj) == radians(FAdd(M_DEG_0, FMul(M_DEG_RATE, dtj)))

_fiction_mean_sun(dtj) == radians(FAdd(FMS_DEG_0, FMul(FMS_DEG_RATE, dtj)))

pbs_A == <<Dec(0, 71, 4), Dec(0, 57, 4), Dec(0, 39, 4), Dec(0, 37, 4),
           Dec(0, 21, 4), Dec(0, 20, 4), Dec(0, 18, 4)>>
pbs_tau == <<Dec(2, 2353, 4), Dec(2, 7543, 4), Dec(1, 1177, 4), Dec(15, 7866, 4),
             Dec(2, 1354, 4), Dec(2, 4694, 4), Dec(32, 8493, 4)>>
pbs_phi == <<Dec(49, 409, 3), Dec(168, 173, 3), Dec(191, 837, 3), Dec(21, 736, 3),
             Dec(15, 704, 3), Dec(95, 528, 3), Dec(49, 95, 3)>>

RECURSIVE pbs_loop(_, _)
\* the for loop of _pbs_term; st is its state: the index i of the next term and
\* the sum s of those before it
pbs_loop(dtj, st) ==
    IF st.i > Len(pbs_A) THEN st.s
    ELSE pbs_loop(dtj,
             [i |-> st.i + 1,
              s |-> FAdd(st.s, FMul(pbs_A[st.i],
                        cos(radians(FAdd(FDiv(FMul(PBS_DEG_RATE, dtj), pbs_tau[st.i]),
                                         pbs_phi[st.i])))))])

_pbs_term(dtj) == pbs_loop(dtj, [i |-> 1, s |-> FInt(0)])

_equation_of_center(M, dtj, pbs_deg) ==
    FAdd(FAdd(FAdd(FAdd(FAdd(
        FMul(FAdd(EC_1, FMul(EC_1_RATE, dtj)), sin(M)),
        FMul(EC_2, sin(FMul(FInt(2), M)))),
        FMul(EC_3, sin(FMul(FInt(3), M)))),
        FMul(EC_4, sin(FMul(FInt(4), M)))),
        FMul(EC_5, sin(FMul(FInt(5), M)))),
        pbs_deg)

_areocentric_solar_longitude(alpha_fms_rad, eq_center_deg) ==
    FAdd(degrees(alpha_fms_rad), eq_center_deg)

\* eot_deg, the local variable of _equation_of_time_h
eot_deg(Ls_deg, eq_center_deg) ==
    Let(radians(Ls_deg), LAMBDA Ls :
        FSub(FAdd(FSub(FMul(EOT_2, sin(FMul(FInt(2), Ls))),
                       FMul(EOT_4, sin(FMul(FInt(4), Ls)))),
                  FMul(EOT_6, sin(FMul(FInt(6), Ls)))),
             eq_center_deg))

\* a plausible slip: the Equation of Time left in degrees
EotInDegrees(Ls_deg, eq_center_deg) == eot_deg(Ls_deg, eq_center_deg)

_equation_of_time_h(Ls_deg, eq_center_deg) ==
    FDiv(eot_deg(Ls_deg, eq_center_deg), DEG_PER_HOUR)

_mst_hours_from_jdtt(jd_tt) ==
    _mod24(FMul(HOURS_24,
                FSub(FAdd(FDiv(FSub(jd_tt, JD_MSD_EPOCH), DAYS_PER_SOL),
                          MSD_AT_EPOCH),
                     MSD_CORRECTION)))

\* plausible slips: a day has 24 hours, so 24 degrees to the hour; and west
\* taken as positive
LmstBy24(mst_h, lon_east_deg) == _mod24(FAdd(mst_h, FDiv(lon_east_deg, HOURS_24)))
LmstWest(mst_h, lon_east_deg) == _mod24(FSub(mst_h, FDiv(lon_east_deg, DEG_PER_HOUR)))

\* lmst_h and ltst_h, the last two local variables of ltst_from_utc_lon
lmst_h(mst_h, lon_east_deg) == _mod24(FAdd(mst_h, FDiv(lon_east_deg, DEG_PER_HOUR)))

ltst_h(lmst, eot_h) == _mod24(FAdd(lmst, eot_h))

\* ltst_from_utc_lon, lines 136-140: jd_tt, dtj, M, aF, pbs
ltst_orbit(utc_dt, host) ==
    Let(_jd_tt_from_utc(utc_dt, host), LAMBDA jd_tt :
    Let(_days_since_j2000_tt(jd_tt), LAMBDA dtj :
        [jd_tt |-> jd_tt, dtj |-> dtj, M |-> _mars_mean_anomaly(dtj),
         aF |-> _fiction_mean_sun(dtj), pbs |-> _pbs_term(dtj)]))

\* ltst_from_utc_lon, lines 141-143: ec, Ls, eot_h
ltst_sun(o) ==
    Let(_equation_of_center(o.M, o.dtj, o.pbs), LAMBDA ec :
    Let(_areocentric_solar_longitude(o.aF, ec), LAMBDA Ls :
        [ec |-> ec, Ls |-> Ls, eot_h |-> _equation_of_time_h(Ls, ec)]))

\* ltst_from_utc_lon, lines 144-148: mst_h, lmst_h, ltst_h
ltst_clock(jd_tt, lon_east_deg, eot_h) ==
    Let(_mst_hours_from_jdtt(jd_tt), LAMBDA mst_h :
    Let(lmst_h(mst_h, lon_east_deg), LAMBDA lmst :
        [mst_h |-> mst_h, lmst_h |-> lmst, ltst_h |-> ltst_h(lmst, eot_h)]))

\* the local variables of ltst_from_utc_lon when it returns; ltst_h is the
\* value returned
ltst_locals(utc_dt, lon_east_deg, host) ==
    Let(ltst_orbit(utc_dt, host), LAMBDA o :
    Let(ltst_sun(o), LAMBDA s :
    Let(ltst_clock(o.jd_tt, lon_east_deg, s.eot_h), LAMBDA c :
        [jd_tt |-> o.jd_tt, dtj |-> o.dtj, M |-> o.M, aF |-> o.aF,
         pbs |-> o.pbs, ec |-> s.ec, Ls |-> s.Ls, eot_h |-> s.eot_h,
         mst_h |-> c.mst_h, lmst_h |-> c.lmst_h, ltst_h |-> c.ltst_h])))

ltst_from_utc_lon(utc_dt, lon_east_deg, host) ==
    ltst_locals(utc_dt, lon_east_deg, host).ltst_h

\* f"{n:02d}"
Fmt02(n) == IF n >= 0 /\ n < 10 THEN "0" \o ToString(n) ELSE ToString(n)

\* _hhmmss, line 180: the fields when it returns; text is the value returned
_hhmmss_text(h, hh, mm, ss) ==
    [h |-> h, hh |-> hh, mm |-> mm, ss |-> ss,
     text |-> Fmt02(hh) \o ":" \o Fmt02(mm) \o ":" \o Fmt02(ss)]

\* _hhmmss, lines 177-179: if mm == 60
_hhmmss_mm60(h, hh, mm, ss) ==
    IF mm = 60 THEN _hhmmss_text(h, (hh + 1) % 24, 0, ss)
    ELSE _hhmmss_text(h, hh, mm, ss)

\* _hhmmss, lines 174-176: if ss == 60
_hhmmss_ss60(h, hh, mm, ss) ==
    IF ss = 60 THEN _hhmmss_mm60(h, hh, mm + 1, 0)
    ELSE _hhmmss_mm60(h, hh, mm, ss)

\* the local variables of _hhmmss when it returns
_hhmmss_locals(h0) ==
    Let(FMod(h0, HOURS_24), LAMBDA h1 :
    Let(PyInt(h1), LAMBDA hh :
    Let(FMul(FSub(h1, FInt(hh)), FInt(60)), LAMBDA mmf :
    Let(PyInt(mmf), LAMBDA mm :
        _hhmmss_ss60(h1, hh, mm, PyRound(FMul(FSub(mmf, FInt(mm)), FInt(60))))))))

_hhmmss(h) == _hhmmss_locals(h).text

(***************************************************************************)
(* src/mars_time.py                                                        *)
(***************************************************************************)
EARTH_DAY_SECONDS == Dec(86400, 0, 1)
SOL_SECONDS == Dec18(88775, 244090000, 0)
EARTH_DAYS_PER_SOL == Dec(1, 2749125, 8)
JD_J2000 == Dec(2451549, 5, 1)
MSD_OFFSET == FSub(Dec(44796, 0, 1), Dec(0, 9626, 7))
M_2000 == Dec(18, 60260, 5)
M_RATE == Dec18(0, 524020953, 600000000)
MSD_J2000 == Dec(44796, 0, 1)
DEG_360 == Dec(360, 0, 1)
EOT_A2 == Dec(12, 8, 1)
SIXTY == Dec(60, 0, 1)
ONE == Dec(1, 0, 1)

\* the local variables of get_mars_eot_correction when it returns (v_minus_M_rad,
\* computed and never used, is left out); ret is the value returned
eot_locals(msd) ==
    Let(FMul(FSub(msd, MSD_J2000), EARTH_DAYS_PER_SOL), LAMBDA mars_days_since_J2000 :
    Let(FMod(FAdd(M_2000, FMul(M_RATE, mars_days_since_J2000)), DEG_360), LAMBDA M :
    Let(radians(M), LAMBDA M_rad :
    Let(FAdd(FMul(FInt(150), sin(M_rad)),
             FMul(EOT_A2, sin(FMul(FInt(2), M_rad)))), LAMBDA eot_seconds :
        [M |-> M, eot_seconds |-> eot_seconds,
         ret |-> FMul(eot_seconds, SIXTY)]))))

get_mars_eot_correction(msd) == eot_locals(msd).ret

\* utc_to_mars_ltst, lines 75-89: earth_dt, julian_date, msd
mars_msd(earth_dt0) ==
    Let(IF earth_dt0.tzinfo = <<>> THEN replace_tzinfo(earth_dt0, utc)
        ELSE IF earth_dt0.tzinfo # utc THEN astimezone_utc(earth_dt0)
        ELSE earth_dt0, LAMBDA earth_dt :
    Let(datetime(2000, 1, 1, 12, 0, 0, 0, utc), LAMBDA j2000_epoch :
    Let(FDiv(total_seconds(earth_dt, j2000_epoch), EARTH_DAY_SECONDS),
        LAMBDA earth_days_since_j2000 :
    Let(FAdd(JD_J2000, earth_days_since_j2000), LAMBDA julian_date :
        [earth_dt |-> earth_dt, julian_date |-> julian_date,
         msd |-> FAdd(FDiv(FSub(julian_date, JD_J2000), EARTH_DAYS_PER_SOL),
                      MSD_OFFSET)]))))

\* utc_to_mars_ltst, lines 90-107: sol_number, cmt_fraction, lmst_seconds
mars_lmst(msd, longitude_e) ==
    Let(FMod(msd, ONE), LAMBDA cmt_fraction :
    Let(FMul(cmt_fraction, SOL_SECONDS), LAMBDA lmst_seconds_at_prime_meridian :
    Let(FMul(FDiv(longitude_e, DEG_360), SOL_SECONDS), LAMBDA longitude_seconds_shift :
        [sol_number |-> PyFloor(msd), cmt_fraction |-> cmt_fraction,
         lmst_seconds |-> FMod(FAdd(lmst_seconds_at_prime_meridian,
                                    longitude_seconds_shift), SOL_SECONDS)])))

\* utc_to_mars_ltst, lines 111-121: eot_seconds_correction, ltst_seconds,
\* hours, minutes, seconds, mars_time_string
mars_ltst(msd, lmst_seconds) ==
    Let(FMul(FMul(get_mars_eot_correction(msd), SIXTY), EARTH_DAYS_PER_SOL),
        LAMBDA eot_seconds_correction :
    Let(FMod(FAdd(lmst_seconds, eot_seconds_correction), SOL_SECONDS),
        LAMBDA ltst_seconds :
    Let(PyInt(FFloorDiv(ltst_seconds, FInt(3600))), LAMBDA hours :
    Let(PyInt(FFloorDiv(FMod(ltst_seconds, FInt(3600)), FInt(60))), LAMBDA minutes :
    Let(PyInt(FMod(ltst_seconds, FInt(60))), LAMBDA seconds :
        [eot_seconds_correction |-> eot_seconds_correction,
         ltst_seconds |-> ltst_seconds,
         hours |-> hours, minutes |-> minutes, seconds |-> seconds,
         mars_time_string |->
             Fmt02(hours) \o ":" \o Fmt02(minutes) \o ":" \o Fmt02(seconds)])))))

\* the local variables of utc_to_mars_ltst when it returns, among them the two
\* entries of the returned dict that are computed from the instant and the
\* longitude: Current_Sol_Number and the LTST string
mars_locals(earth_dt0, longitude_e, latitude) ==
    Let(mars_msd(earth_dt0), LAMBDA a :
    Let(mars_lmst(a.msd, longitude_e), LAMBDA b :
    Let(mars_ltst(a.msd, b.lmst_seconds), LAMBDA c :
        [earth_dt |-> a.earth_dt, msd |-> a.msd, cmt_fraction |-> b.cmt_fraction,
         lmst_seconds |-> b.lmst_seconds,
         eot_seconds_correction |-> c.eot_seconds_correction,
         ltst_seconds |-> c.ltst_seconds,
         hours |-> c.hours, minutes |-> c.minutes, seconds |-> c.seconds,
         Current_Sol_Number |-> b.sol_number,
         LTST |-> c.mars_time_string])))

utc_to_mars_ltst(earth_dt, longitude_e, latitude) ==
    Let(mars_locals(earth_dt, longitude_e, latitude), LAMBDA l :
        [Current_Sol_Number |-> l.Current_Sol_Number, LTST |-> l.LTST])

(***************************************************************************)
(* src/app.py                                                              *)
(***************************************************************************)
\* float(text) for the decimal text [-]i.f1f2 (f1, f2: nine digits each)
float(txt) ==
    Let(Dec18(txt.i, txt.f1, txt.f2), LAMBDA v :
        IF txt.neg THEN FNeg(v) ELSE v)

\* the local variables of get_mars_time_for_station when it returns and the
\* JSON body it answers with
get_mars_time_for_station(data, host) ==
    Let(fromisoformat(data.earth_time), LAMBDA earth_time :
    Let(float(data.lon), LAMBDA longitude :
    Let(ltst_from_utc_lon(earth_time, longitude, host), LAMBDA mars_time :
        [earth_time |-> earth_time, longitude |-> longitude,
         mars_time |-> mars_time, json |-> [ltst |-> _hhmmss(mars_time)]])))

(***************************************************************************)
(* The state: the inputs of the functions under study, the host's time     *)
(* zone, and what the calls made so far have returned.                     *)
(***************************************************************************)
VARIABLES
    host,       \* the host's local time: seconds east of UTC
    h,          \* an hour value handed to _hhmmss
    utc_dt,     \* a datetime
    lon,        \* a longitude, degrees east (a float)
    data,       \* the JSON body of a POST /api/mars_time
    calls,      \* what the calls into MarsTime.py / app.py returned, in order
    runs        \* what the calls of utc_to_mars_ltst returned, in order

vars == <<host, h, utc_dt, lon, data, calls, runs>>

NoData == [earth_time |-> [ymd |-> <<1970, 1, 1>>, hms |-> <<0, 0, 0>>,
                           frac |-> 0, off |-> <<>>],
           lon |-> [neg |-> FALSE, i |-> 0, f1 |-> 0, f2 |-> 0]]

T0 == datetime(2025, 10, 25, 0, 10, 25, 0, utc)

(***************************************************************************)
(* What the checked properties are written with: exact arithmetic on the   *)
(* float values (no rounding), the distance of two hour values on the      *)
(* 24-hour circle, and the tolerances.                                     *)
(***************************************************************************)
FAbs(x) == F(FALSE, x.m)

\* n * x exactly, 0 <= n <= Base
Times(n, x) == F(x.neg, BMulSmall(x.m, n))

\* |a - b| exactly
Gap(a, b) == FAbs(ZAdd(a, FNeg(b)))

\* the distance of the hours a and b on the 24-hour circle, |a - b| <= 36
CyclicGap(a, b) ==
    IF FCmp(Gap(a, b), FInt(12)) <= 0 THEN Gap(a, b)
    ELSE Gap(Gap(a, b), FInt(24))

Within(a, b, tol) == FCmp(Gap(a, b), tol) <= 0

CyclicWithin(a, b, tol) == FCmp(CyclicGap(a, b), tol) <= 0

\* 1e-9 and 1e-6 hours
Tol9 == Dec(0, 1, 9)
Tol6 == Dec(0, 1, 6)

IsClock(hh, mm, ss) == hh \in 0..23 /\ mm \in 0..59 /\ ss \in 0..59

(***************************************************************************)
(* SpecClock: _hhmmss applied to one hour value.                           *)
(***************************************************************************)
ClockInputs ==
    {FDiv(FInt(n), FInt(4)) : n \in -8..104}
    \cup {Dec(23, 99999, 5), Dec(11, 99999, 5), Dec(0, 9999, 4), Dec(23, 5, 1),
          Dec(100000, 125, 3), FNeg(Dec(0, 1, 1)), Dyadic(TRUE, <<1>>, 60)}

ClockInit ==
    /\ h \in ClockInputs
    /\ host = 0 /\ utc_dt = T0 /\ lon = FInt(0) /\ data = NoData
    /\ calls = <<>> /\ runs = <<>>

Format ==
    /\ calls = <<>>
    /\ calls' = <<_hhmmss_locals(h)>>
    /\ UNCHANGED <<host, h, utc_dt, lon, data, runs>>

ClockNext == Format

SpecClock == ClockInit /\ [][ClockNext]_vars

\* C1: for every hour value h, of any sign and magnitude, _hhmmss(h) is a
\* clock reading HH:MM:SS with HH in 00..23, MM in 00..59 and SS in 00..59:
\* never "24:00:00", never a field equal to 60.
C1_ValidClock ==
    \A i \in 1..Len(calls) :
        /\ IsClock(calls[i].hh, calls[i].mm, calls[i].ss)
        /\ calls[i].text # "24:00:00"

(***************************************************************************)
(* SpecLon: ltst_from_utc_lon called, as draw calls it once per site, at   *)
(* one instant for three longitudes: a longitude, the same plus 360        *)
(* degrees, the same plus 15 degrees.                                      *)
(***************************************************************************)
LonInstants ==
    {T0,
     datetime(2019, 4, 21, 5, 14, 43, 960437, utc),
     datetime(1976, 7, 20, 11, 53, 6, 0, utc),
     datetime(2012, 8, 6, 5, 17, 57, 0, utc)}

LonBases ==
    {FInt(0), Dec(77, 5, 1), Dec(137, 4, 1), Dec18(109, 344712854, 547880000),
     FNeg(Dec(250, 0, 1)), Dec(350, 0, 1), Dec(15, 5, 1)}

\* the longitudes converted: lon, lon + 360 and lon + 15
Lons == <<lon, FAdd(lon, FInt(360)), FAdd(lon, FInt(15))>>

LonInit ==
    /\ utc_dt \in LonInstants
    /\ lon \in LonBases
    /\ host = 0 /\ h = FInt(0) /\ data = NoData
    /\ calls = <<>> /\ runs = <<>>

\* one call: the longitude passed and what the call computed
Convert ==
    /\ Len(calls) < Len(Lons)
    /\ calls' = Append(calls,
                       [lon |-> Lons[Len(calls) + 1],
                        r |-> ltst_locals(utc_dt, Lons[Len(calls) + 1], host)])
    /\ UNCHANGED <<host, h, utc_dt, lon, data, runs>>

LonNext == Convert

SpecLon == LonInit /\ [][LonNext]_vars

\* C2: for every instant (also before J2000) and every longitude (also
\* negative, also above 360) ltst_from_utc_lon returns an hour value h with
\* 0 <= h < 24: never negative, never 24.
C2_InRange ==
    \A i \in 1..Len(calls) :
        /\ ~calls[i].r.ltst_h.neg
        /\ FCmp(calls[i].r.ltst_h, FInt(24)) < 0

EotYears == {1, 1970, 2026, 9998, 9999}

EotInstants ==
    {datetime(y, mo, 1, 0, 0, 0, 0, utc) : y \in EotYears, mo \in 1..12}
        \cup {datetime(9999, 2, 9, 0, 0, 0, 0, utc)}

EotInit ==
    /\ utc_dt \in EotInstants
    /\ lon = FInt(0) /\ host = 0 /\ h = FInt(0) /\ data = NoData
    /\ calls = <<>> /\ runs = <<>>

Sample ==
    /\ calls = <<>>
    /\ calls' = <<[lon |-> lon, r |-> ltst_locals(utc_dt, lon, host)]>>
    /\ UNCHANGED <<host, h, utc_dt, lon, data, runs>>

EotNext == Sample

SpecEot == EotInit /\ [][EotNext]_vars

\* C6: for the elapsed days dtj of every representable instant, before or
\* after J2000, the Equation of Time that _equation_of_time_h returns for the
\* Ls and the equation of center derived from dtj is at most 1.0 hour in
\* magnitude.
C6_EotWithinHour ==
    \A i \in 1..Len(calls) : FCmp(FAbs(calls[i].r.eot_h), FInt(1)) <= 0

\* the Equation of Time has been computed, before and after J2000, and has
\* come within 0.06 hours of the bound
C6_Reached ==
    /\ calls # <<>>
    /\ FCmp(FAbs(calls[1].r.eot_h), Dec(0, 94, 2)) >= 0
    /\ ~calls[1].r.dtj.neg

(***************************************************************************)
(* SpecSol: the script of mars_time.py (utc_to_mars_ltst) and the          *)
(* Coordinated Mars Time of MarsTime.py (_mst_hours_from_jdtt), each run   *)
(* at an instant and again one mean sol later.                             *)
(***************************************************************************)
\* timedelta(seconds = x) for 0 <= x: whole days, seconds, and microseconds
\* rounded half to even
timedelta(x) ==
    Let(PyInt(x), LAMBDA secs :
    Let(PyRound(FMul(FSub(x, FInt(secs)), FInt(1000000))), LAMBDA us :
        [days |-> (secs + us \div 1000000) \div 86400,
         seconds |-> (secs + us \div 1000000) % 86400,
         microseconds |-> us % 1000000]))

\* datetime + timedelta
dt_add(dt, td) ==
    Let(dt.us + td.microseconds, LAMBDA us :
    Let(dt.sod + td.seconds + us \div 1000000, LAMBDA sod :
        [date |-> dt.date + td.days + sod \div 86400, sod |-> sod % 86400,
         us |-> us % 1000000, tzinfo |-> dt.tzinfo]))

\* the instant, and the instant k mean sols later (k = 0, 1)
Later(dt, k) == IF k = 0 THEN dt ELSE dt_add(dt, timedelta(SOL_SECONDS))

SolInstants ==
    {T0,
     datetime(2025, 10, 25, 18, 54, 59, 642990, utc),
     datetime(2000, 1, 1, 12, 0, 0, 0, utc),
     datetime(1976, 7, 20, 11, 53, 6, 0, utc),
     datetime(2021, 2, 18, 20, 55, 0, 0, utc),
     datetime(2030, 12, 31, 23, 59, 59, 999999, utc)}

SolLons == {Dec(30, 0, 1), Dec(137, 4, 1), Dec(286, 0, 1)}

SolInit ==
    /\ utc_dt \in SolInstants
    /\ lon \in SolLons
    /\ host = 0 /\ h = FInt(0) /\ data = NoData
    /\ calls = <<>> /\ runs = <<>>

Script ==
    /\ Len(runs) < 2
    /\ runs' = Append(runs, mars_locals(Later(utc_dt, Len(runs)), lon, FInt(0)))
    /\ UNCHANGED <<host, h, utc_dt, lon, data, calls>>

\* Coordinated Mars Time as ltst_from_utc_lon computes it: jd_tt, then mst_h
Cmt ==
    /\ Len(calls) < 2
    /\ calls' = Append(calls,
         Let(_jd_tt_from_utc(Later(utc_dt, Len(calls)), host), LAMBDA jd_tt :
             [jd_tt |-> jd_tt, mst_h |-> _mst_hours_from_jdtt(jd_tt)]))
    /\ UNCHANGED <<host, h, utc_dt, lon, data, runs>>

SolNext == Script \/ Cmt

SpecSol == SolInit /\ [][SolNext]_vars

\* C5: one mean sol (88775.24409 s) after any instant, Coordinated Mars Time
\* (that of _mst_hours_from_jdtt, and msd % 1 of utc_to_mars_ltst, in hours)
\* is unchanged within 1e-6 hours on the 24-hour circle, and
\* Current_Sol_Number is greater by exactly 1.
C5_OneSolLater ==
    /\ Len(calls) = 2 => CyclicWithin(calls[1].mst_h, calls[2].mst_h, Tol6)
    /\ Len(runs) = 2 =>
        /\ CyclicWithin(Times(24, runs[1].cmt_fraction),
                        Times(24, runs[2].cmt_fraction), Tol6)
        /\ runs[2].Current_Sol_Number = runs[1].Current_Sol_Number + 1

\* C8: at one instant, the fraction of the sol that utc_to_mars_ltst uses,
\* msd % 1, times 24 is the Coordinated Mars Time of _mst_hours_from_jdtt
\* (here: within 0.1 hours on the 24-hour circle, which allows for the 69.184
\* seconds between UTC and TT and for the two values of the sol length).
C8_SameCmt ==
    \A i \in 1..Min(Len(calls), Len(runs)) :
        CyclicWithin(Times(24, runs[i].cmt_fraction), calls[i].mst_h, Dec(0, 1, 1))

\* C9: the Local True Solar Time that utc_to_mars_ltst reports is a clock
\* reading between 00:00:00 and 23:59:59: hours in 0..23, minutes in 0..59,
\* seconds in 0..59.
C9_ValidClock ==
    \A i \in 1..Len(runs) : IsClock(runs[i].hours, runs[i].minutes, runs[i].seconds)

\* C10: the Equation-of-Time correction that utc_to_mars_ltst adds to
\* lmst_seconds is at most 3600 seconds in magnitude.
C10_CorrectionWithinHour ==
    \A i \in 1..Len(runs) :
        FCmp(FAbs(runs[i].eot_seconds_correction), FInt(3600)) <= 0

(***************************************************************************)
(* SpecNaive: a request whose earth_time carries no UTC offset, served on  *)
(* hosts in several time zones: POST /api/mars_time and utc_to_mars_ltst,  *)
(* each called with the naive timestamp and then with the same wall-clock  *)
(* fields tagged UTC.                                                      *)
(***************************************************************************)
Request(ymd, hms, frac, i, f1) ==
    [earth_time |-> [ymd |-> ymd, hms |-> hms, frac |-> frac, off |-> <<>>],
     lon |-> [neg |-> FALSE, i |-> i, f1 |-> f1, f2 |-> 0]]

NaiveRequests ==
    {Request(<<2025, 10, 25>>, <<0, 10, 25>>, 0, 137, 400000000),
     Request(<<2021, 2, 18>>, <<20, 55, 0>>, 0, 77, 500000000),
     Request(<<2000, 1, 1>>, <<12, 0, 0>>, 500000, 0, 0),
     Request(<<2030, 6, 15>>, <<23, 30, 0>>, 0, 226, 200000000)}

\* seconds east of UTC: New York (EST), UTC, Paris (CET), Seoul
Hosts == {-18000, 0, 3600, 32400}

NaiveInit ==
    /\ data \in NaiveRequests
    /\ host \in Hosts
    /\ utc_dt = fromisoformat(data.earth_time)
    /\ lon = float(data.lon)
    /\ h = FInt(0)
    /\ calls = <<>> /\ runs = <<>>

\* the same request with "+00:00" appended to earth_time
TaggedUtc(d) == [d EXCEPT !.earth_time.off = <<1, 0, 0>>]

Handler ==
    /\ Len(calls) < 2
    /\ calls' = Append(calls,
                       get_mars_time_for_station(
                           IF calls = <<>> THEN data ELSE TaggedUtc(data), host))
    /\ UNCHANGED <<host, h, utc_dt, lon, data, runs>>

Run ==
    /\ Len(runs) < 2
    /\ runs' = Append(runs,
                      utc_to_mars_ltst(
                          IF runs = <<>> THEN utc_dt ELSE replace_tzinfo(utc_dt, utc),
                          lon, FInt(0)))
    /\ UNCHANGED <<host, h, utc_dt, lon, data, calls>>

NaiveNext == Handler \/ Run

SpecNaive == NaiveInit /\ [][NaiveNext]_vars

\* C7: a naive timestamp is taken as UTC: on every host, whatever its time
\* zone, the answer of POST /api/mars_time and the result of utc_to_mars_ltst
\* for a naive timestamp are those for the same wall-clock fields tagged UTC.
C7_NaiveIsUtc ==
    /\ Len(calls) = 2 => /\ calls[1].mars_time = calls[2].mars_time
                         /\ calls[1].json = calls[2].json
    /\ Len(runs) = 2 => runs[1] = runs[2]

====
